---------------------------- MODULE Spec2Model ----------------------------
(***************************************************************************)
(* A model of the MOV/MP4 metadata driver of nom-exif (src/src/mov.rs):    *)
(*                                                                         *)
(*   - parse_metadata, the driver that assembles the ordered entry list    *)
(*     from a moov body (specification Spec);                              *)
(*   - extract_moov_body_from_buf and the load/parse/retry loop that       *)
(*     drives it (specification LoaderSpec).                               *)
(*                                                                         *)
(* The box grammar (find_box, travel_header, KeysBox, IlstBox, MvhdBox,    *)
(* parse_video_tkhd_in_moov) and the loader live in modules of the crate   *)
(* that are not part of the sources at hand (bbox, loader, error); they    *)
(* are modelled from the specification text and marked so in the map.      *)
(***************************************************************************)
EXTENDS Integers, Sequences, FiniteSets, TLC

(***************************************************************************)
(* Bounds of the model.                                                    *)
(***************************************************************************)
\* longest keys list of a keys box
MaxKeys == 2
\* longest items list of an ilst box
MaxVals == 2
\* longest body of a udta/(c)xyz box, in bytes
MaxXyzLen == 6

VARIABLES
    pc,         \* parse_metadata: the statement the driver is at
    moov_body,  \* parse_metadata: the children of the extracted moov box
    entries,    \* parse_metadata: the entry list under construction
    result,     \* parse_metadata: what is handed to the caller
    metaIn,     \* parse_moov_body: what meta, keys and ilst hold
    moovRes,    \* parse_moov_body: its return value
    xyzIn,      \* find_box(moov_body, "udta/(c)xyz"): its return value
    mvhdIn,     \* find_box(moov_body, "mvhd") and MvhdBox::parse_box
    tkhdIn      \* parse_video_tkhd_in_moov: its return value

mvars == <<pc, moov_body, entries, result, metaIn, moovRes, xyzIn, mvhdIn, tkhdIn>>

VARIABLES
    stream,     \* the top-level boxes of the file: [type, body] each
    srcLen,     \* the bytes the source holds (the file may be cut short)
    chunk,      \* the size of the chunks in which the source gives its bytes
    seekable,   \* the source supports seeking (SeekBufLoader) or not (BufLoader)
    srcPos,     \* the offset in the file of the next byte the source gives
    bufStart,   \* the offset in the file of the first byte of the buffer
    bufLen,     \* the length of the buffer
    lstate,     \* the loader: Parsing, Loading, Skipping, Done, Failed, or Idle
    pending,    \* Loading: bytes needed; Skipping: bytes to skip
    lastRes,    \* what extract_moov_body_from_buf returned last
    outcome,    \* what load_and_parse returned
    seekOutcome \* what load_and_parse returned with the seek-capable source

lvars == <<stream, srcLen, chunk, seekable, srcPos, bufStart, bufLen, lstate, pending,
           lastRes, outcome, seekOutcome>>
vars == <<mvars, lvars>>

(***************************************************************************)
(* Keys and values.                                                        *)
(***************************************************************************)
LOCATION_KEY == "com.apple.quicktime.location.ISO6709"
CREATIONDATE_KEY == "com.apple.quicktime.creationdate"
MAKE_KEY == "com.apple.quicktime.make"

\* the length of the language/locale prefix of a (c)xyz body
LocPrefixLen == 4

\* EntryValue: a tagged union; text is a sequence of code points.
Text(s) == [tag |-> "Text", text |-> s]
Time(secs, offset) == [tag |-> "Time", secs |-> secs, offset |-> offset]
U8(n) == [tag |-> "U8", u8 |-> n]
U32(n) == [tag |-> "U32", u32 |-> n]

\* "2019-02-12T15:27:12+08:00"
TsText ==
    <<50, 48, 49, 57, 45, 48, 50, 45, 49, 50, 84, 49, 53, 58, 50, 55, 58, 49,
      50, 43, 48, 56, 58, 48, 48>>
\* "Apple"
AppleText == <<65, 112, 112, 108, 101>>

Keys == {MAKE_KEY, LOCATION_KEY, CREATIONDATE_KEY}
Values == {Text(TsText), Text(AppleText), U8(1)}

\* Results of the nom parsers: Ok(value), or Err with nom's error kind.
Ok(v) == [tag |-> "Ok", val |-> v]
NomErr(kind) == [tag |-> "Err", kind |-> kind]
NomErrKinds == {"Error", "Incomplete"}
NomErrs == {NomErr(k) : k \in NomErrKinds}

\* Option
None == [some |-> FALSE]
Some(v) == [some |-> TRUE, val |-> v]

\* DateTime::parse_from_str(s, "%+"): strict ISO-8601; of the texts of the
\* model only TsText parses.
ParseFromStr(s) ==
    IF s = TsText THEN Ok(Time(1549956432, 28800)) ELSE NomErr("Error")

(***************************************************************************)
(* Boxes. The children of a box are a sequence of box kinds; "bad" is a    *)
(* box with a malformed header, "trunc" a box whose declared size runs     *)
(* past the end of its parent.                                             *)
(***************************************************************************)
SeqsUpTo(S, n) == UNION {[1..k -> S] : k \in 0..n}

\* The subsequence of s of the kinds in G.
RECURSIVE Restrict(_, _)
Restrict(s, G) ==
    IF s = <<>> THEN <<>>
    ELSE IF Head(s) \in G THEN <<Head(s)>> \o Restrict(Tail(s), G)
    ELSE Restrict(Tail(s), G)

\* The bodies over the well-formed kinds of `order`: a walk stops at the
\* first match or at the first malformed box, and skips every other box, so
\* the order of the well-formed children and what follows a malformed one
\* change no result; one representative of each class is drawn.
Bodies(order) ==
    {Restrict(order, G) \o t :
        G \in SUBSET {order[i] : i \in 1..Len(order)},
        t \in {<<>>, <<"bad">>, <<"trunc">>}}

MoovBodies == Bodies(<<"mvhd", "trak", "udta", "meta">>)
MetaBodies == Bodies(<<"keys", "ilst">>)
UdtaBodies == Bodies(<<"xyz">>)

\* find_box for a one-segment path: the first child of the type, walking the
\* children in order; a malformed header fails the walk.
RECURSIVE FindBox(_, _)
FindBox(body, type) ==
    IF body = <<>> THEN Ok(None)
    ELSE IF Head(body) = "bad" THEN NomErr("Error")
    ELSE IF Head(body) = "trunc" THEN NomErr("Incomplete")
    ELSE IF Head(body) = type THEN Ok(Some(type))
    ELSE FindBox(Tail(body), type)

Found(r) == r.tag = "Ok" /\ r.val.some
Absent(r) == r.tag = "Ok" /\ ~r.val.some
Failed(r) == r.tag = "Err"

(***************************************************************************)
(* parse_moov_body                                                         *)
(***************************************************************************)
\* A parser that was not run.
Unparsed == [tag |-> "Unparsed"]

\* Mutant of Zip: lists of different lengths pair to nothing.
ZipStrict(ks, vs) ==
    IF Len(ks) # Len(vs) THEN <<>>
    ELSE [i \in 1..Len(ks) |-> [key |-> ks[i], value |-> vs[i]]]

\* Iterator::zip: pairs are taken until either side runs out.
RECURSIVE Zip(_, _)
Zip(ks, vs) ==
    IF ks = <<>> \/ vs = <<>> THEN <<>>
    ELSE <<[key |-> Head(ks), value |-> Head(vs)]>> \o Zip(Tail(ks), Tail(vs))

\* What KeysBox::parse_box and IlstBox::parse_box may return.
KeysResults == {Ok(ks) : ks \in SeqsUpTo(Keys, MaxKeys)} \cup NomErrs
IlstResults == {Ok(vs) : vs \in SeqsUpTo(Values, MaxVals)} \cup NomErrs

\* Mutant of ParseMoovBody: a moov without meta is an error.
ParseMoovBodyMetaRequired(input, m) ==
    LET meta == FindBox(input, "meta")
        keys == FindBox(m.body, "keys")
        ilst == FindBox(m.body, "ilst")
    IN  IF Failed(meta) THEN meta
        ELSE IF Absent(meta) THEN NomErr("Error")
        ELSE IF Failed(keys) THEN keys
        ELSE IF Absent(keys) THEN Ok(None)
        ELSE IF Failed(ilst) THEN ilst
        ELSE IF Absent(ilst) THEN Ok(None)
        ELSE IF Failed(m.keys) THEN m.keys
        ELSE IF Failed(m.ilst) THEN m.ilst
        ELSE Ok(Some(Zip(m.keys.val, m.ilst.val)))

\* parse_moov_body(input): m.body is the body of meta, m.keys and m.ilst are
\* what the keys and ilst boxes parse to.
ParseMoovBody(input, m) ==
    LET meta == FindBox(input, "meta")
        keys == FindBox(m.body, "keys")
        ilst == FindBox(m.body, "ilst")
    IN  IF Failed(meta) THEN meta
        ELSE IF Absent(meta) THEN Ok(None)
        ELSE IF Failed(keys) THEN keys
        ELSE IF Absent(keys) THEN Ok(None)
        ELSE IF Failed(ilst) THEN ilst
        ELSE IF Absent(ilst) THEN Ok(None)
        ELSE IF Failed(m.keys) THEN m.keys
        ELSE IF Failed(m.ilst) THEN m.ilst
        ELSE Ok(Some(Zip(m.keys.val, m.ilst.val)))

NullMeta == [body |-> <<>>, keys |-> Unparsed, ilst |-> Unparsed]

\* The contents of meta that parse_moov_body can meet in `input`: nothing is
\* read of a box the walk does not reach.
MetaInputs(input) ==
    IF ~Found(FindBox(input, "meta")) THEN {NullMeta}
    ELSE UNION {
        IF Found(FindBox(b, "keys")) /\ Found(FindBox(b, "ilst"))
        THEN {[body |-> b, keys |-> k, ilst |-> v] :
                  k \in KeysResults, v \in IlstResults}
        ELSE {[body |-> b, keys |-> Unparsed, ilst |-> Unparsed]}
        : b \in MetaBodies}

(***************************************************************************)
(* parse_metadata                                                          *)
(***************************************************************************)
Pending == [tag |-> "Pending"]
RetOk(es) == [tag |-> "Ok", entries |-> es]
RetErr(e) == [tag |-> "Err", err |-> e]

HasKey(es, k) == \E i \in 1..Len(es) : es[i].key = k

\* Iterator::position: the index of the first entry with the key, 0 if none.
Position(es, k) ==
    IF HasKey(es, k)
    THEN CHOOSE i \in 1..Len(es) :
             es[i].key = k /\ \A j \in 1..(i - 1) : es[j].key # k
    ELSE 0

\* What extract_moov_body returns: the moov body, or the loader's failure.
ExtractErrs == {"NoEnoughBytes", "Failed", "IOError"}

\* let moov_body = extract_moov_body(reader)?;
ExtractMoovBody ==
    /\ pc = "extract"
    /\ \/ \E b \in MoovBodies : moov_body' = b /\ pc' = "moov_body" /\ result' = result
       \/ \E e \in ExtractErrs :
              moov_body' = moov_body /\ pc' = "done" /\ result' = RetErr(e)
    /\ UNCHANGED <<lvars, entries, metaIn, moovRes, xyzIn, mvhdIn, tkhdIn>>

\* Mutant of InvalidMoovBody: nom's Incomplete is handed on as Need.
InvalidMoovBodyLeaky(e) ==
    IF e.kind = "Incomplete" THEN [tag |-> "Need", n |-> 1]
    ELSE RetErr("invalid moov body")

\* Err(_) => return Err("invalid moov body".into())
InvalidMoovBody(e) == RetErr("invalid moov body")

\* let (_, mut entries) = match parse_moov_body(&moov_body) { ... };
ParseMoovBodyStep ==
    /\ pc = "moov_body"
    /\ \E m \in MetaInputs(moov_body) :
         LET r == ParseMoovBody(moov_body, m)
         IN  /\ metaIn' = m
             /\ moovRes' = r
             /\ IF Failed(r)
                THEN /\ result' = InvalidMoovBody(r)
                     /\ pc' = "done"
                     /\ entries' = entries
                ELSE /\ entries' = (IF r.val.some THEN r.val.val ELSE <<>>)
                     /\ pc' = "location"
                     /\ result' = result
    /\ UNCHANGED <<lvars, moov_body, xyzIn, mvhdIn, tkhdIn>>

\* The bodies of a (c)xyz box: a 4-byte language/locale prefix, then ASCII
\* text, cut at every length up to MaxXyzLen.
XyzByte(i) == IF i <= 4 THEN <<0, 18, 21, 199>>[i] ELSE 48 + ((i - 5) % 10)
XyzData == {[i \in 1..n |-> XyzByte(i)] : n \in 0..MaxXyzLen}

NullXyz == [udta |-> <<>>, data |-> <<>>]

\* The contents of udta that the location step can meet: it reads nothing
\* when the entries hold a location already.
XyzInputs(input, es) ==
    IF HasKey(es, LOCATION_KEY) \/ ~Found(FindBox(input, "udta"))
    THEN {NullXyz}
    ELSE UNION {
        IF Found(FindBox(u, "xyz"))
        THEN {[udta |-> u, data |-> d] : d \in XyzData}
        ELSE {[udta |-> u, data |-> <<>>]}
        : u \in UdtaBodies}

\* find_box(&moov_body, "udta/(c)xyz"): the path is walked segment by
\* segment, each in the body of the box the previous one found.
FindXyz(input, x) ==
    LET u == FindBox(input, "udta")
        b == FindBox(x.udta, "xyz")
    IN  IF Failed(u) THEN u
        ELSE IF Absent(u) THEN Ok(None)
        ELSE IF Found(b) THEN Ok(Some(x.data))
        ELSE b

\* &bbox.body_data()[4..] as chars
LocationText(data) == SubSeq(data, LocPrefixLen + 1, Len(data))

\* Mutant of LocationFallback: a body of exactly 4 bytes is taken too.
LocationFallbackOffByOne(es, input, x) ==
    IF HasKey(es, LOCATION_KEY) THEN es
    ELSE LET r == FindXyz(input, x)
             bbox == IF Failed(r) THEN None ELSE r.val
         IN  IF ~bbox.some THEN es
             ELSE IF Len(bbox.val) < LocPrefixLen THEN es
             ELSE Append(es, [key |-> LOCATION_KEY,
                              value |-> Text(LocationText(bbox.val))])

\* if !entries.iter().any(|x| x.0 == LOCATION_KEY) { ... }
LocationFallback(es, input, x) ==
    IF HasKey(es, LOCATION_KEY) THEN es
    ELSE LET r == FindXyz(input, x)
             bbox == IF Failed(r) THEN None ELSE r.val
         IN  IF ~bbox.some THEN es
             ELSE IF Len(bbox.val) <= LocPrefixLen THEN es
             ELSE Append(es, [key |-> LOCATION_KEY,
                              value |-> Text(LocationText(bbox.val))])

LocationStep ==
    /\ pc = "location"
    /\ \E x \in XyzInputs(moov_body, entries) :
         /\ xyzIn' = x
         /\ entries' = LocationFallback(entries, moov_body, x)
    /\ pc' = "creationdate"
    /\ metaIn' = NullMeta
    /\ moovRes' = Unparsed
    /\ UNCHANGED <<lvars, moov_body, result, mvhdIn, tkhdIn>>

\* Mutant of NormalizeCreationDate: the timestamp is pushed at the end and
\* the text entry removed.
NormalizeCreationDateAtEnd(es) ==
    LET pos == Position(es, CREATIONDATE_KEY)
    IN  IF pos = 0 THEN es
        ELSE IF es[pos].value.tag # "Text" THEN es
        ELSE LET t == ParseFromStr(es[pos].value.text)
             IN  IF t.tag = "Ok"
                 THEN Append(SubSeq(es, 1, pos - 1) \o SubSeq(es, pos + 1, Len(es)),
                             [key |-> CREATIONDATE_KEY, value |-> t.val])
                 ELSE es

\* if let Some(pos) = entries.iter().position(|x| x.0 == CREATIONDATE_KEY)
NormalizeCreationDate(es) ==
    LET pos == Position(es, CREATIONDATE_KEY)
    IN  IF pos = 0 THEN es
        ELSE IF es[pos].value.tag # "Text" THEN es
        ELSE LET t == ParseFromStr(es[pos].value.text)
             IN  IF t.tag = "Ok"
                 THEN [es EXCEPT ![pos] =
                          [key |-> CREATIONDATE_KEY, value |-> t.val]]
                 ELSE es

CreationDateStep ==
    /\ pc = "creationdate"
    /\ entries' = NormalizeCreationDate(entries)
    /\ pc' = "mvhd"
    /\ xyzIn' = NullXyz
    /\ UNCHANGED <<lvars, moov_body, result, metaIn, moovRes, mvhdIn, tkhdIn>>

\* What MvhdBox::parse_box may return: duration_ms() and creation_time() of
\* the parsed box (2024-02-03T07:05:38+00:00), or an error.
MvhdResults ==
    {Ok([duration_ms |-> 1063, creation_time |-> Time(1706943938, 0)])}
        \cup NomErrs

MvhdInputs(input) ==
    IF Found(FindBox(input, "mvhd")) THEN MvhdResults ELSE {Unparsed}

\* Mutant of MvhdEntries: the creationdate is pushed before the duration.
MvhdEntriesCdFirst(es, m) ==
    IF m.tag # "Ok" THEN es
    ELSE LET es1 == IF HasKey(es, CREATIONDATE_KEY) THEN es
                    ELSE Append(es, [key |-> CREATIONDATE_KEY,
                                     value |-> m.val.creation_time])
         IN  Append(es1, [key |-> "duration", value |-> U32(m.val.duration_ms)])

\* Mutant of MvhdEntries: the creationdate of mvhd is pushed whether or not
\* the entries hold one.
MvhdEntriesAlways(es, m) ==
    IF m.tag # "Ok" THEN es
    ELSE Append(Append(es, [key |-> "duration",
                            value |-> U32(m.val.duration_ms)]),
                [key |-> CREATIONDATE_KEY, value |-> m.val.creation_time])

\* if let Ok((_, mvhd)) = MvhdBox::parse_box(bbox.data) { ... }
MvhdEntries(es, m) ==
    IF m.tag # "Ok" THEN es
    ELSE LET es1 == Append(es, [key |-> "duration",
                                value |-> U32(m.val.duration_ms)])
         IN  IF HasKey(es1, CREATIONDATE_KEY) THEN es1
             ELSE Append(es1, [key |-> CREATIONDATE_KEY,
                               value |-> m.val.creation_time])

\* The conversion `?` applies to a nom error: From<nom::Err<_>> for the
\* crate's Error.
FromNomErr(e) == RetErr("parse failed")

\* let (_, bbox) = find_box(&moov_body, "mvhd")?;
MvhdStep ==
    /\ pc = "mvhd"
    /\ LET r == FindBox(moov_body, "mvhd")
       IN  IF Failed(r)
           THEN /\ result' = FromNomErr(r)
                /\ pc' = "done"
                /\ UNCHANGED <<entries, mvhdIn>>
           ELSE /\ \E m \in MvhdInputs(moov_body) :
                     /\ mvhdIn' = m
                     /\ entries' = (IF r.val.some THEN MvhdEntries(entries, m)
                                    ELSE entries)
                /\ pc' = "tkhd"
                /\ result' = result
    /\ UNCHANGED <<lvars, moov_body, metaIn, moovRes, xyzIn, tkhdIn>>

\* What parse_video_tkhd_in_moov may return when moov holds a trak: the
\* video track's tkhd, none (no video track), or an error.
TkhdResults ==
    {Ok(Some([width |-> 1920, height |-> 1080])), Ok(None)} \cup NomErrs

\* parse_video_tkhd_in_moov(&moov_body)
TkhdInputs(input) ==
    LET r == FindBox(input, "trak")
    IN  IF Failed(r) THEN {r}
        ELSE IF Absent(r) THEN {Ok(None)}
        ELSE TkhdResults

\* if let Ok(Some(tkhd)) = parse_video_tkhd_in_moov(&moov_body) { ... }
TkhdEntries(es, t) ==
    IF t.tag = "Ok" /\ t.val.some
    THEN Append(Append(es, [key |-> "width", value |-> U32(t.val.val.width)]),
                [key |-> "height", value |-> U32(t.val.val.height)])
    ELSE es

\* ... Ok(entries)
TkhdStep ==
    /\ pc = "tkhd"
    /\ \E t \in TkhdInputs(moov_body) :
         /\ tkhdIn' = t
         /\ entries' = TkhdEntries(entries, t)
    /\ result' = RetOk(entries')
    /\ pc' = "done"
    /\ mvhdIn' = Unparsed
    /\ UNCHANGED <<lvars, moov_body, metaIn, moovRes, xyzIn>>

(***************************************************************************)
(* extract_moov_body_from_buf and the loader                               *)
(***************************************************************************)
\* longest run of boxes before moov
MaxTop == 1
\* largest body of a top-level box, in bytes
MaxBody == 2
\* largest chunk in which a source gives its bytes
MaxChunk == 3

\* The size of a box header: a 4-byte size and a 4-byte type.
HeaderSize == 8
SizeFieldLen == 4

Box(t, b) == [type |-> t, body |-> b]
\* box_size of a box; a "bad" box declares a size below the header size and
\* is its header alone.
BoxSize(bx) == HeaderSize + (IF bx.type = "bad" THEN 0 ELSE bx.body)

RECURSIVE SumSizes(_)
SumSizes(bs) == IF bs = <<>> THEN 0 ELSE BoxSize(Head(bs)) + SumSizes(Tail(bs))

\* The offset in the file at which box i starts.
BoxStart(bs, i) == SumSizes(SubSeq(bs, 1, i - 1))

\* The files: boxes of no interest, then nothing, a malformed header, or
\* moov, alone or followed by one more box.
FreeBoxes == {Box("free", b) : b \in 0..MaxBody}
Streams ==
    {pre \o post :
        pre \in SeqsUpTo(FreeBoxes, MaxTop),
        post \in {<<>>, <<Box("bad", 0)>>}
                 \cup {<<Box("moov", b)>> : b \in 0..MaxBody}
                 \cup {<<Box("moov", b), Box("free", 0)>> : b \in 0..MaxBody}}

\* The lengths at which a file is cut: within its last box, or not at all. A
\* file cut before its last box is the file without that box.
Cuts(bs) ==
    IF bs = <<>> THEN {0} ELSE (BoxStart(bs, Len(bs)) + 1)..SumSizes(bs)

\* The index of the box that starts at offset a of the file, 0 if none does.
BoxAt(bs, a) ==
    IF \E i \in 1..Len(bs) : BoxStart(bs, i) = a
    THEN CHOOSE i \in 1..Len(bs) : BoxStart(bs, i) = a
    ELSE 0

\* ParsingError
Need(n) == [tag |-> "Need", n |-> n]
ClearAndSkip(n) == [tag |-> "ClearAndSkip", n |-> n]
ParseFailed(msg) == [tag |-> "Failed", msg |-> msg]
RangeOk(a, b) == [tag |-> "Ok", start |-> a, end |-> b]
\* The header parser read bytes that are no box header: any result.
Garbage == [tag |-> "Garbage"]
NoParse == [tag |-> "None"]

\* BoxHeader::parse on `avail` bytes, fewer than a header: nom's Incomplete
\* with the bytes the field at hand lacks.
HeaderNeeded(avail) ==
    IF avail < SizeFieldLen THEN SizeFieldLen - avail ELSE HeaderSize - avail

\* Mutant of ConvertError: an Incomplete is a failure like the others.
ConvertErrorAllFailed(e, msg) == ParseFailed(msg)

\* convert_error: Incomplete(Size(n)) => Need(n); Failure | Error => Failed
ConvertError(e, msg) ==
    IF e.kind = "Incomplete" THEN Need(e.n) ELSE ParseFailed(msg)

Incomplete(n) == [tag |-> "Err", kind |-> "Incomplete", n |-> n]

\* Mutant of Travel: to_skip is the whole body size, the bytes of the body
\* already in the input are not taken off.
RECURSIVE TravelSkipWholeBody(_, _, _, _)
TravelSkipWholeBody(bs, start, len, skipped) ==
    LET avail == len - skipped
        i == BoxAt(bs, start + skipped)
        h == bs[i]
        remain == avail - HeaderSize
    IN  IF avail < HeaderSize
        THEN ConvertError(Incomplete(HeaderNeeded(avail)), "search atom moov failed")
        ELSE IF i = 0 THEN Garbage
        ELSE IF h.type = "bad"
        THEN ConvertError(NomErr("Error"), "search atom moov failed")
        ELSE IF h.type = "moov"
        THEN IF remain < h.body
             THEN ConvertError(Incomplete(h.body - remain), "moov is too small")
             ELSE RangeOk(skipped + HeaderSize, skipped + HeaderSize + h.body)
        ELSE IF remain < h.body
        THEN ClearAndSkip(h.body)
        ELSE TravelSkipWholeBody(bs, start, len, skipped + BoxSize(h))

\* Mutant of Travel: to_skip is taken from box_size, not from body_size().
RECURSIVE TravelSkipBoxSize(_, _, _, _)
TravelSkipBoxSize(bs, start, len, skipped) ==
    LET avail == len - skipped
        i == BoxAt(bs, start + skipped)
        h == bs[i]
        remain == avail - HeaderSize
    IN  IF avail < HeaderSize
        THEN ConvertError(Incomplete(HeaderNeeded(avail)), "search atom moov failed")
        ELSE IF i = 0 THEN Garbage
        ELSE IF h.type = "bad"
        THEN ConvertError(NomErr("Error"), "search atom moov failed")
        ELSE IF h.type = "moov"
        THEN IF remain < h.body
             THEN ConvertError(Incomplete(h.body - remain), "moov is too small")
             ELSE RangeOk(skipped + HeaderSize, skipped + HeaderSize + h.body)
        ELSE IF remain < h.body
        THEN ClearAndSkip(BoxSize(h) - remain)
        ELSE TravelSkipBoxSize(bs, start, len, skipped + BoxSize(h))

\* Mutant of Travel: at moov, header_size is not added to skipped.
RECURSIVE TravelForgetMoovHeader(_, _, _, _)
TravelForgetMoovHeader(bs, start, len, skipped) ==
    LET avail == len - skipped
        i == BoxAt(bs, start + skipped)
        h == bs[i]
        remain == avail - HeaderSize
    IN  IF avail < HeaderSize
        THEN ConvertError(Incomplete(HeaderNeeded(avail)), "search atom moov failed")
        ELSE IF i = 0 THEN Garbage
        ELSE IF h.type = "bad"
        THEN ConvertError(NomErr("Error"), "search atom moov failed")
        ELSE IF h.type = "moov"
        THEN IF remain < h.body
             THEN ConvertError(Incomplete(h.body - remain), "moov is too small")
             ELSE RangeOk(skipped, skipped + h.body)
        ELSE IF remain < h.body
        THEN ClearAndSkip(h.body - remain)
        ELSE TravelForgetMoovHeader(bs, start, len, skipped + BoxSize(h))

\* extract_moov_body_from_buf(input), input being the bytes
\* [start, start + len) of the file bs: travel_header walks the headers from
\* offset `skipped` of the input on; the closure stops it at moov or at a box
\* whose body is not all in the input.
RECURSIVE Travel(_, _, _, _)
Travel(bs, start, len, skipped) ==
    LET avail == len - skipped
        i == BoxAt(bs, start + skipped)
        h == bs[i]
        remain == avail - HeaderSize
    IN  IF avail < HeaderSize
        THEN ConvertError(Incomplete(HeaderNeeded(avail)), "search atom moov failed")
        ELSE IF i = 0 THEN Garbage
        ELSE IF h.type = "bad"
        THEN ConvertError(NomErr("Error"), "search atom moov failed")
        ELSE IF h.type = "moov"
        THEN \* skipped += h.header_size; then streaming::take(body_size)
             IF remain < h.body
             THEN ConvertError(Incomplete(h.body - remain), "moov is too small")
             ELSE RangeOk(skipped + HeaderSize, skipped + HeaderSize + h.body)
        ELSE IF remain < h.body
        THEN \* to_skip = h.body_size() as usize - remain.len()
             ClearAndSkip(h.body - remain)
        ELSE \* skipped += h.box_size as usize
             Travel(bs, start, len, skipped + BoxSize(h))

ExtractMoovBodyFromBuf(bs, start, len) == Travel(bs, start, len, 0)

\* ParsedError, what load_and_parse fails with.
LoadErr(e) == [tag |-> "Err", err |-> e]
\* The moov body: the bytes [start, end) of the file.
LoadOk(a, b) == [tag |-> "Ok", start |-> a, end |-> b]
NoOutcome == [tag |-> "None"]

Terminal == {"Done", "Failed"}

\* One call of the parser on the buffer, and what the loader makes of it.
Parse ==
    /\ lstate = "Parsing"
    /\ LET r == ExtractMoovBodyFromBuf(stream, bufStart, bufLen)
       IN  /\ lastRes' = r
           /\ CASE r.tag = "Ok" ->
                     /\ lstate' = "Done"
                     /\ outcome' = LoadOk(bufStart + r.start, bufStart + r.end)
                     /\ UNCHANGED <<pending, bufLen, bufStart>>
                [] r.tag = "Need" ->
                     /\ lstate' = "Loading"
                     /\ pending' = r.n
                     /\ UNCHANGED <<outcome, bufLen, bufStart>>
                [] r.tag = "ClearAndSkip" ->
                     /\ lstate' = "Skipping"
                     /\ pending' = r.n
                     /\ bufLen' = 0
                     /\ bufStart' = srcPos
                     /\ outcome' = outcome
                [] OTHER ->
                     /\ lstate' = "Failed"
                     /\ outcome' = LoadErr("Failed")
                     /\ UNCHANGED <<pending, bufLen, bufStart>>
    /\ UNCHANGED <<mvars, stream, srcLen, chunk, seekable, srcPos, seekOutcome>>

Min(a, b) == IF a <= b THEN a ELSE b

\* The bytes `chunk`-sized reads bring until at least n are read.
Filled(n) == ((n + chunk - 1) \div chunk) * chunk

\* Loading: the source is read, chunk by chunk, until the bytes the parser
\* asked for are in the buffer. The parser is then tried again.
Read ==
    /\ lstate = "Loading"
    /\ srcLen - srcPos >= pending
    /\ srcPos' = Min(srcPos + Filled(pending), srcLen)
    /\ bufLen' = bufLen + (srcPos' - srcPos)
    /\ pending' = 0
    /\ lstate' = "Parsing"
    /\ UNCHANGED <<mvars, stream, srcLen, chunk, seekable, bufStart, lastRes, outcome, seekOutcome>>

\* Mutant of Exhausted: the parser is tried again.
ExhaustedRetry ==
    /\ lstate = "Loading"
    /\ srcLen - srcPos < pending
    /\ srcPos' = srcLen
    /\ bufLen' = bufLen + (srcLen - srcPos)
    /\ lstate' = "Parsing"
    /\ UNCHANGED <<mvars, stream, srcLen, chunk, seekable, bufStart, pending,
                   lastRes, outcome, seekOutcome>>

\* Loading, and the source ends before it gave the bytes asked for: a
\* failure for good.
Exhausted ==
    /\ lstate = "Loading"
    /\ srcLen - srcPos < pending
    /\ srcPos' = srcLen
    /\ bufLen' = bufLen + (srcLen - srcPos)
    /\ lstate' = "Failed"
    /\ outcome' = LoadErr("NoEnoughBytes")
    /\ UNCHANGED <<mvars, stream, srcLen, chunk, seekable, bufStart, pending,
                   lastRes, seekOutcome>>

\* Skipping with a seek-capable source: one seek past the bytes.
SkipBySeek ==
    /\ lstate = "Skipping"
    /\ seekable
    /\ srcPos' = srcPos + pending
    /\ bufStart' = srcPos + pending
    /\ pending' = 0
    /\ lstate' = "Parsing"
    /\ UNCHANGED <<mvars, stream, srcLen, chunk, seekable, bufLen, lastRes, outcome, seekOutcome>>

\* Skipping with a forward-only source: the bytes are read and dropped,
\* until all are or the source ends.
SkipByRead ==
    /\ lstate = "Skipping"
    /\ ~seekable
    /\ srcPos' = Min(srcPos + pending, srcLen)
    /\ bufStart' = Min(srcPos + pending, srcLen)
    /\ pending' = 0
    /\ lstate' = "Parsing"
    /\ UNCHANGED <<mvars, stream, srcLen, chunk, seekable, bufLen, lastRes, outcome, seekOutcome>>

\* The same file is loaded again, from a forward-only source.
Reload ==
    /\ lstate \in Terminal
    /\ seekable
    /\ seekable' = FALSE
    /\ seekOutcome' = outcome
    /\ srcPos' = 0 /\ bufStart' = 0 /\ bufLen' = 0 /\ pending' = 0
    /\ lstate' = "Parsing"
    /\ lastRes' = NoParse
    /\ outcome' = NoOutcome
    /\ chunk' \in 1..MaxChunk
    /\ UNCHANGED <<mvars, stream, srcLen>>

LoaderIdle ==
    /\ stream = <<>>
    /\ srcLen = 0
    /\ chunk = 1
    /\ seekable = TRUE
    /\ srcPos = 0 /\ bufStart = 0 /\ bufLen = 0 /\ pending = 0
    /\ lstate = "Idle"
    /\ lastRes = NoParse
    /\ outcome = NoOutcome
    /\ seekOutcome = NoOutcome

DriverIdle ==
    /\ pc = "idle"
    /\ moov_body = <<>>
    /\ entries = <<>>
    /\ result = Pending
    /\ metaIn = NullMeta
    /\ moovRes = Unparsed
    /\ xyzIn = NullXyz
    /\ mvhdIn = Unparsed
    /\ tkhdIn = Unparsed

\* SeekBufLoader::new(read), on any file of Streams cut at any length.
LoaderInit ==
    /\ stream \in Streams
    /\ srcLen \in Cuts(stream)
    /\ chunk \in 1..MaxChunk
    /\ seekable = TRUE
    /\ srcPos = 0 /\ bufStart = 0 /\ bufLen = 0 /\ pending = 0
    /\ lstate = "Parsing"
    /\ lastRes = NoParse
    /\ outcome = NoOutcome
    /\ seekOutcome = NoOutcome
    /\ DriverIdle

LoaderNext ==
    \/ Parse
    \/ Read
    \/ Exhausted
    \/ SkipBySeek
    \/ SkipByRead
    \/ Reload

LoaderSpec == LoaderInit /\ [][LoaderNext]_vars
\* The loop is sequential code: it keeps running until it returns.
FairLoaderSpec == LoaderSpec /\ WF_vars(LoaderNext)

Init ==
    /\ pc = "extract"
    /\ moov_body = <<>>
    /\ entries = <<>>
    /\ result = Pending
    /\ metaIn = NullMeta
    /\ moovRes = Unparsed
    /\ xyzIn = NullXyz
    /\ mvhdIn = Unparsed
    /\ tkhdIn = Unparsed
    /\ LoaderIdle

Next ==
    \/ ExtractMoovBody
    \/ ParseMoovBodyStep
    \/ LocationStep
    \/ CreationDateStep
    \/ MvhdStep
    \/ TkhdStep

Spec == Init /\ [][Next]_vars

(***************************************************************************)
(* Properties of parse_metadata (specification Spec).                      *)
(***************************************************************************)
KeysOf(es) == [i \in 1..Len(es) |-> es[i].key]
IsPrefix(s, t) == Len(s) <= Len(t) /\ SubSeq(t, 1, Len(s)) = s
Suffix(t, n) == SubSeq(t, n + 1, Len(t))

\* C1: the list parse_metadata returns is in insertion order: the keys/ilst
\* pairs as parse_moov_body returned them, then the location taken from
\* udta/(c)xyz (if added), then "duration", then the creationdate taken from
\* mvhd (if added), then "width" and "height"; every step after the first
\* keeps the entries already there, in their places, and only appends.
C1_StepOrder ==
    /\ (pc = "moov_body" /\ pc' = "location") =>
           entries' = (IF moovRes'.val.some THEN moovRes'.val.val ELSE <<>>)
    /\ pc = "location" =>
           /\ pc' = "creationdate"
           /\ IsPrefix(entries, entries')
           /\ KeysOf(Suffix(entries', Len(entries))) \in {<<>>, <<LOCATION_KEY>>}
    /\ pc = "creationdate" =>
           /\ pc' = "mvhd"
           /\ KeysOf(entries') = KeysOf(entries)
    /\ (pc = "mvhd" /\ pc' # "done") =>
           /\ pc' = "tkhd"
           /\ IsPrefix(entries, entries')
           /\ KeysOf(Suffix(entries', Len(entries))) \in
                  {<<>>, <<"duration">>, <<"duration", CREATIONDATE_KEY>>}
    /\ pc = "tkhd" =>
           /\ pc' = "done"
           /\ IsPrefix(entries, entries')
           /\ KeysOf(Suffix(entries', Len(entries))) \in {<<>>, <<"width", "height">>}
           /\ result' = RetOk(entries')
C1_InsertionOrder == [][C1_StepOrder]_vars

\* A moov with one keys/ilst pair, a (c)xyz location, an mvhd and a video
\* tkhd: all five groups are in the returned list.
C1_Witness ==
    /\ pc = "done"
    /\ result.tag = "Ok"
    /\ KeysOf(result.entries) =
           <<MAKE_KEY, LOCATION_KEY, "duration", CREATIONDATE_KEY, "width", "height">>

\* C2: parse_moov_body pairs keys and ilst values by position: for k keys
\* and v values it returns exactly min(k, v) entries, entry N being
\* (key N, value N); a surplus on either side is dropped and is no error.
C2_ZipPositional ==
    (metaIn.keys.tag = "Ok" /\ metaIn.ilst.tag = "Ok") =>
        LET ks == metaIn.keys.val
            vs == metaIn.ilst.val
        IN  /\ moovRes.tag = "Ok"
            /\ moovRes.val.some
            /\ Len(moovRes.val.val) = Min(Len(ks), Len(vs))
            /\ \A N \in 1..Min(Len(ks), Len(vs)) :
                   moovRes.val.val[N] = [key |-> ks[N], value |-> vs[N]]
            /\ pc = "location"
            /\ entries = moovRes.val.val

\* Two keys against one value: the second key is dropped.
C2_Witness ==
    /\ metaIn.keys.tag = "Ok"
    /\ metaIn.ilst.tag = "Ok"
    /\ Len(metaIn.keys.val) = 2
    /\ Len(metaIn.ilst.val) = 1
    /\ Len(entries) = 1

\* C3: the location step appends a LOCATION_KEY entry if and only if the
\* entries from keys/ilst hold none, udta/(c)xyz is found and its body is
\* longer than 4 bytes; the text is the body without its first 4 bytes. In
\* every other case the entries are left as they are, and the step never
\* fails.
C3_Step ==
    pc = "location" =>
        LET r == FindXyz(moov_body, xyzIn')
            cond == /\ ~HasKey(entries, LOCATION_KEY)
                    /\ Found(r)
                    /\ Len(r.val.val) > 4
        IN  /\ (cond =>
                entries' = Append(entries,
                    [key |-> LOCATION_KEY,
                     value |-> Text([i \in 1..(Len(r.val.val) - 4) |->
                                        r.val.val[i + 4]])]))
            /\ (~cond => entries' = entries)
            /\ pc' = "creationdate"
            /\ result' = Pending
C3_LocationFallback == [][C3_Step]_vars

\* A 6-byte (c)xyz body and no location from keys/ilst: the last entry is
\* the location, its text the last 2 bytes.
C3_Witness ==
    /\ pc = "creationdate"
    /\ Found(FindXyz(moov_body, xyzIn))
    /\ Len(xyzIn.data) = 6
    /\ Len(entries) >= 1
    /\ entries[Len(entries)] = [key |-> LOCATION_KEY, value |-> Text(<<48, 49>>)]

\* C4: the creation time of mvhd is used only when the entries hold no
\* creationdate: an existing one (a timestamp or raw text) is left as it is
\* and none is added; when there is none and mvhd parses, exactly one is
\* appended, right after "duration".
C4_Step ==
    (pc = "mvhd" /\ pc' = "tkhd") =>
        LET added == Suffix(entries', Len(entries))
        IN  /\ IsPrefix(entries, entries')
            /\ (HasKey(entries, CREATIONDATE_KEY) =>
                   ~HasKey(added, CREATIONDATE_KEY))
            /\ (~HasKey(entries, CREATIONDATE_KEY) /\ mvhdIn'.tag = "Ok") =>
                   added = <<[key |-> "duration",
                              value |-> U32(mvhdIn'.val.duration_ms)],
                             [key |-> CREATIONDATE_KEY,
                              value |-> mvhdIn'.val.creation_time]>>
C4_MvhdCreationDate == [][C4_Step]_vars

\* mvhd parsed while the entries hold a creationdate kept as raw text: the
\* duration is the last entry, no creationdate follows it.
C4_Witness ==
    /\ pc = "tkhd"
    /\ mvhdIn.tag = "Ok"
    /\ \E i \in 1..Len(entries) :
           entries[i].key = CREATIONDATE_KEY /\ entries[i].value.tag = "Text"
    /\ entries[Len(entries)].key = "duration"

\* The structured timestamp a text parses to, if it does.
Parses(v) == v.tag = "Text" /\ ParseFromStr(v.text).tag = "Ok"

\* C5 as stated: every creationdate entry whose text parses is replaced in
\* place by the timestamp, and every other entry is left as it is.
C5_StepEvery ==
    pc = "creationdate" =>
        /\ Len(entries') = Len(entries)
        /\ \A i \in 1..Len(entries) :
               IF entries[i].key = CREATIONDATE_KEY /\ Parses(entries[i].value)
               THEN entries'[i] = [key |-> CREATIONDATE_KEY,
                                   value |-> ParseFromStr(entries[i].value.text).val]
               ELSE entries'[i] = entries[i]
C5_EveryCreationDateNormalized == [][C5_StepEvery]_vars

\* C5, amended: the FIRST creationdate entry, when its value is text that
\* parses as a strict ISO-8601 timestamp, is replaced in place (same
\* position, same key) by the timestamp; when it is not text or does not
\* parse it is kept; every other entry, a later creationdate entry
\* included, keeps its value and position.
C5_StepFirst ==
    pc = "creationdate" =>
        /\ Len(entries') = Len(entries)
        /\ \A i \in 1..Len(entries) :
               IF /\ entries[i].key = CREATIONDATE_KEY
                  /\ \A j \in 1..(i - 1) : entries[j].key # CREATIONDATE_KEY
                  /\ Parses(entries[i].value)
               THEN entries'[i] = [key |-> CREATIONDATE_KEY,
                                   value |-> ParseFromStr(entries[i].value.text).val]
               ELSE entries'[i] = entries[i]
C5_FirstCreationDateNormalized == [][C5_StepFirst]_vars

\* Two creationdate entries came from keys/ilst, both with a text that
\* parses: the first is a timestamp now, the second still the text.
C5_Witness ==
    /\ pc = "mvhd"
    /\ Len(entries) = 2
    /\ entries[1] = [key |-> CREATIONDATE_KEY, value |-> Time(1549956432, 28800)]
    /\ entries[2] = [key |-> CREATIONDATE_KEY, value |-> Text(TsText)]

\* C6: absence is not an error: a box that the search finds absent (meta,
\* keys, ilst, udta/(c)xyz, mvhd, the video tkhd) only leaves out the
\* entries it would have given and the parse goes on to Ok; a failure of
\* parse_metadata after moov was extracted always comes from a search or a
\* parser that failed, never from an absent box.
C6_Step ==
    /\ pc = "moov_body" =>
           LET meta == FindBox(moov_body, "meta")
               keys == FindBox(metaIn'.body, "keys")
               ilst == FindBox(metaIn'.body, "ilst")
           IN  (\/ Absent(meta)
                \/ Found(meta) /\ Absent(keys)
                \/ Found(meta) /\ Found(keys) /\ Absent(ilst))
               => (pc' = "location" /\ entries' = <<>> /\ result' = Pending)
    /\ pc = "location" =>
           /\ pc' = "creationdate" /\ result' = Pending
           /\ (Absent(FindXyz(moov_body, xyzIn')) => entries' = entries)
    /\ (pc = "mvhd" /\ Absent(FindBox(moov_body, "mvhd"))) =>
           (pc' = "tkhd" /\ entries' = entries /\ result' = Pending)
    /\ pc = "tkhd" =>
           /\ result'.tag = "Ok"
           /\ (tkhdIn' = Ok(None) => result' = RetOk(entries))
    /\ (pc' = "done" /\ result'.tag = "Err") =>
           \/ pc = "extract"
           \/ pc = "moov_body" /\ Failed(moovRes') /\ moovRes'.kind \in NomErrKinds
           \/ pc = "mvhd" /\ Failed(FindBox(moov_body, "mvhd"))
C6_AbsenceIsNoError == [][C6_Step]_vars

\* A moov that holds an mvhd and nothing else: Ok with the two entries of
\* mvhd.
C6_Witness ==
    /\ pc = "done"
    /\ moov_body = <<"mvhd">>
    /\ result.tag = "Ok"
    /\ KeysOf(result.entries) = <<"duration", CREATIONDATE_KEY>>

\* C7: once moov is extracted, parse_metadata returns Ok; it fails only when
\* the extraction of moov failed.
C7_NestedMalformedTolerated ==
    (pc = "done" /\ result.tag = "Err") => result.err \in ExtractErrs

\* C8: parse_metadata hands its caller Ok(entries) or an unrecoverable
\* error, never a Need or Skip signal, also when a nom parser ran out of
\* input inside the moov body.
C8_NoSignalEscapes ==
    /\ result.tag \in {"Pending", "Ok", "Err"}
    /\ (pc = "done" <=> result.tag \in {"Ok", "Err"})
    /\ result.tag = "Err" =>
           result.err \in ExtractErrs \cup {"invalid moov body", "parse failed"}

\* parse_moov_body ran out of input (nom's Incomplete) and the caller got
\* an error.
C8_Witness ==
    /\ pc = "done"
    /\ moovRes = NomErr("Incomplete")
    /\ result.tag = "Err"

(***************************************************************************)
(* Properties of the load/parse/retry loop (specification LoaderSpec).     *)
(***************************************************************************)
\* C9: the same file, loaded from a seek-capable source (skip by seeking)
\* and from a forward-only one (skip by read-and-discard), whatever each
\* read returns, ends with the same result: the same moov body, or a
\* failure in both.
C9_SkipThenResumeEquivalent ==
    (~seekable /\ lstate \in Terminal) =>
        /\ outcome.tag = seekOutcome.tag
        /\ outcome.tag = "Ok" =>
               outcome.start = seekOutcome.start /\ outcome.end = seekOutcome.end

\* A box before moov was skipped by read-and-discard, and moov was found
\* where the seek-capable run found it.
C9_Witness ==
    /\ ~seekable
    /\ lstate = "Done"
    /\ bufStart > 0
    /\ stream[1].type = "free"
    /\ outcome = seekOutcome

\* C10: on a finite source the loop always ends in Done or Failed; when the
\* source has no more bytes while the loader is Loading, the next step is
\* the failure NoEnoughBytes, not another try.
C10_ExhaustedStep ==
    (lstate = "Loading" /\ srcLen - srcPos < pending) =>
        (lstate' = "Failed" /\ outcome' = LoadErr("NoEnoughBytes"))
C10_LoopEnds ==
    /\ (lstate \notin Terminal) ~> (lstate \in Terminal)
    /\ [][C10_ExhaustedStep]_vars

\* The source ran out while the parser's Need was outstanding.
C10_Witness ==
    /\ lstate = "Failed"
    /\ lastRes.tag = "Need"
    /\ srcPos = srcLen
    /\ srcPos > 0
    /\ outcome = LoadErr("NoEnoughBytes")

\* The first box of the buffer [start, start + len) of the file bs whose
\* header is in the buffer and whose body is not all in it, the boxes before
\* it in the buffer being whole and none of them moov; 0 if there is none.
PartBoxes(bs, start, len) ==
    {i \in 1..Len(bs) :
        /\ BoxAt(bs, start) # 0
        /\ BoxAt(bs, start) <= i
        /\ \A j \in BoxAt(bs, start)..i : bs[j].type # "bad"
        /\ \A j \in BoxAt(bs, start)..(i - 1) : bs[j].type # "moov"
        /\ BoxStart(bs, i) + HeaderSize <= start + len
        /\ BoxStart(bs, i) + BoxSize(bs[i]) > start + len}
PartBox(bs, start, len) ==
    IF PartBoxes(bs, start, len) = {} THEN 0 ELSE CHOOSE i \in PartBoxes(bs, start, len) : TRUE
\* The bytes of the body of box i that the buffer lacks.
Lacking(bs, i, start, len) == BoxStart(bs, i) + BoxSize(bs[i]) - (start + len)

\* The file is cut in the middle of moov.
MoovCut ==
    \E i \in 1..Len(stream) :
        /\ stream[i].type = "moov"
        /\ BoxStart(stream, i) < srcLen
        /\ srcLen < BoxStart(stream, i) + BoxSize(stream[i])

C11_Step ==
    (lstate = "Parsing" /\ PartBox(stream, bufStart, bufLen) # 0) =>
        LET i == PartBox(stream, bufStart, bufLen)
        IN  /\ lastRes'.tag # "Failed"
            /\ lstate' # "Failed"
            /\ (stream[i].type = "moov") =>
                   /\ lastRes' = Need(Lacking(stream, i, bufStart, bufLen))
                   /\ lastRes'.n >= 1
                   /\ lstate' = "Loading"
C11_TruncatedMoov ==
    (MoovCut /\ lstate \in Terminal) => outcome = LoadErr("NoEnoughBytes")
\* C11: a box whose header is parsed and whose body is not all in the buffer
\* never makes extract_moov_body_from_buf fail; when that box is moov the
\* result is Need(n), n >= 1 being the bytes of the body that lack; a file cut
\* in the middle of moov ends with the failure of an exhausted source, not
\* with that of a malformed structure.
C11_PartialBodyNeedsMore ==
    /\ [][C11_Step]_vars
    /\ [](C11_TruncatedMoov)
C11_Witness ==
    /\ lstate = "Failed"
    /\ MoovCut
    /\ PartBox(stream, bufStart, bufLen) # 0
    /\ stream[PartBox(stream, bufStart, bufLen)].type = "moov"
    /\ bufStart + bufLen > BoxStart(stream, PartBox(stream, bufStart, bufLen)) + HeaderSize
    /\ lastRes.tag = "Need"
    /\ outcome = LoadErr("NoEnoughBytes")

\* The first moov box at or after box k of the file bs, 0 if there is none.
FirstMoov(bs, k) ==
    IF \E m \in k..Len(bs) : bs[m].type = "moov"
    THEN CHOOSE m \in k..Len(bs) :
             bs[m].type = "moov" /\ \A j \in k..(m - 1) : bs[j].type # "moov"
    ELSE 0

\* C12: when extract_moov_body_from_buf returns Ok(range) for a buffer that
\* starts at a box boundary, range.start is the sum of the sizes of the boxes
\* of the buffer before moov plus the moov header size, the length of the
\* range is the moov body size, and range.end is within the buffer.
C12_RangeIsMoovBody ==
    (lastRes.tag = "Ok" /\ BoxAt(stream, bufStart) # 0) =>
        LET k == BoxAt(stream, bufStart)
            m == FirstMoov(stream, k)
        IN  /\ m # 0
            /\ lastRes.start = SumSizes(SubSeq(stream, k, m - 1)) + HeaderSize
            /\ lastRes.end - lastRes.start = BoxSize(stream[m]) - HeaderSize
            /\ lastRes.end <= bufLen
            /\ outcome = LoadOk(BoxStart(stream, m) + HeaderSize,
                                BoxStart(stream, m) + BoxSize(stream[m]))
C12_Witness ==
    /\ lastRes.tag = "Ok"
    /\ BoxAt(stream, bufStart) # 0
    /\ stream[BoxAt(stream, bufStart)].type = "free"
    /\ lastRes.start > HeaderSize
    /\ lastRes.end > lastRes.start
    /\ lastRes.end < bufLen

\* The offset of the file bs at which box i ends and the next box starts.
BoxEnd(bs, i) == BoxStart(bs, i) + BoxSize(bs[i])

\* A parser call that answers ClearAndSkip(n): the first box not all in the
\* buffer is not moov, and n is what its body lacks.
C13_ParseStep ==
    (lstate = "Parsing" /\ lastRes'.tag = "ClearAndSkip") =>
        LET i == PartBox(stream, bufStart, bufLen)
            remain == bufStart + bufLen - (BoxStart(stream, i) + HeaderSize)
        IN  /\ i # 0
            /\ stream[i].type # "moov"
            /\ lastRes'.n = stream[i].body - remain
            /\ lastRes'.n > 0
            /\ bufLen' = 0
            /\ bufStart' + lastRes'.n = BoxEnd(stream, i)
\* The skip: the source advances by n bytes, as far as it has them.
C13_SkipStep ==
    (lstate = "Skipping") =>
        /\ bufLen' = 0
        /\ srcPos' = bufStart'
        /\ (bufStart + pending <= srcLen \/ seekable) => bufStart' = bufStart + pending
        /\ \E i \in 1..Len(stream) : BoxEnd(stream, i) = bufStart + pending
\* Outside of a skip under way, the buffer starts at the first byte of a box
\* header: that is the next byte handed to the parser.
C13_Aligned ==
    /\ (lstate # "Skipping" /\ bufStart < srcLen) => BoxAt(stream, bufStart) # 0
    /\ lastRes.tag # "Garbage"
\* C13: extract_moov_body_from_buf answers ClearAndSkip(n) only when the first
\* box whose body is not all in the buffer is not moov, with n > 0 the body
\* size less the bytes of the buffer after the header; after the loader has
\* dropped the buffer and advanced by n bytes, the parser is handed bytes that
\* start at the header of the next top-level box, in every round.
C13_SkipLandsOnBoxBoundary ==
    /\ [][C13_ParseStep /\ C13_SkipStep]_vars
    /\ [](C13_Aligned)
C13_Witness ==
    /\ lstate = "Parsing"
    /\ lastRes = ClearAndSkip(1)
    /\ bufStart > HeaderSize + 1
    /\ bufStart < srcLen
    /\ bufLen = 0
    /\ BoxAt(stream, bufStart) # 0
    /\ stream[BoxAt(stream, bufStart)].type = "moov"

=============================================================================
